---- MODULE Spec2Model ----
(***************************************************************************)
(* Model of "pages/Page 1 Definition.py": the synthetic score generator    *)
(* (DummyClassifier) with numpy's process-wide random generator, and the   *)
(* threshold metrics (plot1's confusion matrix, make_tpr_fpr's sweep).     *)
(*                                                                         *)
(* Numbers.  A score or a threshold is an integer number of ticks, where   *)
(* 1.0 is One ticks; the thresholds of the sweep, t / 10, are exact on     *)
(* that grid, as they are exact to the double nearest the same literal.    *)
(* A rate tp / (tp + fn + 1e-20) is kept as the pair of its numerator and  *)
(* its float denominator, a denominator being whole + eps * 1e-20.         *)
(***************************************************************************)
EXTENDS Integers, Sequences, FiniteSets

VARIABLES
    \* ---- the metrics call frame (plot1, make_tpr_fpr)
    call,               \* "none" | "plot1" | "f1" | "make_tpr_fpr"
    pc,                 \* "idle" | "loop" | "returned" | "raised"
    probabilities,      \* argument: sequence of scores (ticks)
    labels,             \* argument: sequence of integer labels
    threshold,          \* plot1's argument / make_tpr_fpr's current t (ticks)
    confusion_matrix,   \* the local 2x2 list, confusion_matrix[actual][predicted]
    t,                  \* make_tpr_fpr: index of the next iteration of range(11)
    tpr,                \* make_tpr_fpr: the tpr list
    fpr,                \* make_tpr_fpr: the fpr list
    wrote,              \* f1: the rates it handed to st.write
    raised,             \* the exception that ended the call, or "none"
    \* ---- the generator side (np.random, DummyClassifier)
    rng,                \* state of numpy's global generator
    clf,                \* the DummyClassifier's four fields
    y,                  \* the argument y of the latest predict that returned
    probs,              \* what predict returned
    origin,             \* history: the class each returned score was drawn for
    memo,               \* history: one earlier predict call and what it returned
    repeat,             \* history: the latest step was a predict repeating memo's call
    last                \* the latest generator step: "none" | "DummyClassifier" |
                        \* "rand" | "predict returned" | "predict raised"

mvars == <<call, pc, probabilities, labels, threshold, confusion_matrix, t, tpr, fpr, wrote, raised>>
gvars == <<rng, clf, y, probs, origin, memo, repeat, last>>
vars == <<call, pc, probabilities, labels, threshold, confusion_matrix, t, tpr, fpr, wrote, raised,
          rng, clf, y, probs, origin, memo, repeat, last>>

----------------------------------------------------------------------------
\* Bounds of the model.

\* Longest scores / labels vector.
MaxLen == 2
\* Ticks between two thresholds of the sweep (0.1).
TicksPerStep == 10
\* Number of states of the model of the global generator.
RngMod == 8
\* Most values one np.random.rand call draws.
MaxDraws == 2

\* 1.0 in ticks.
One == 10 * TicksPerStep

\* Scores: below 0, 0, between two thresholds, on a threshold, 1.0, above 1.0.
ScoreValues == {-1, 0, 2 * TicksPerStep + 1, 3 * TicksPerStep, One, One + 1}
\* Labels an integer array can hold: the two classes, and values outside them.
LabelValues == {-1, 0, 1, 2}
\* Thresholds plot1 is called with (the slider's 0.0 .. 1.0 and values around).
ThresholdValues == {0, 2 * TicksPerStep + 1, 3 * TicksPerStep, One + 1}

SeqsUpTo(S, n) == UNION {[1..k -> S] : k \in 0..n}

Min(a, b) == IF a <= b THEN a ELSE b

----------------------------------------------------------------------------
\* The metrics: plot1 and make_tpr_fpr.

\* range(11)
ThresholdSteps == 11

\* confusion_matrix = [[0, 0], [0, 0]]
ZeroMatrix == <<<<0, 0>>, <<0, 0>>>>

\* A Python list index: i in 0..n-1, a negative i counts from the end, anything
\* else is an IndexError (the result n).
PyIndex(n, i) ==
    IF 0 <= i /\ i < n THEN i
    ELSE IF -n <= i /\ i < 0 THEN i + n
    ELSE n

\* Mutants of GE: a strict comparison, and the comparison turned round.
GE_Strict(score, thr) == score > thr
GE_Reversed(score, thr) == score <= thr

\* probabilities >= threshold, elementwise.
GE(score, thr) == score >= thr

\* (probabilities >= threshold).astype(np.uint8)
Predicted(ps, thr) == [j \in 1..Len(ps) |-> IF GE(ps[j], thr) THEN 1 ELSE 0]

\* Mutant of Increment: the cell is set to 1 instead of being incremented.
Increment_Assign(cm, actual, predicted) ==
    [cm EXCEPT ![actual + 1][predicted + 1] = 1]

\* confusion_matrix[actual][predicted] += 1
Increment(cm, actual, predicted) ==
    [cm EXCEPT ![actual + 1][predicted + 1] = @ + 1]

\* zip(labels, predictions): as many pairs as the shorter of the two.
ZipLen(ls, preds) == Min(Len(ls), Len(preds))

\* The counting loop from pair i on: the matrix when the loop ends, and the
\* error that ended it.
RECURSIVE CountFrom(_, _, _, _)
CountFrom(cm, ls, preds, i) ==
    IF i > ZipLen(ls, preds) THEN [cm |-> cm, err |-> "none"]
    ELSE LET actual == PyIndex(2, ls[i]) IN
         IF actual = 2 THEN [cm |-> cm, err |-> "IndexError"]
         ELSE CountFrom(Increment(cm, actual, preds[i]), ls, preds, i + 1)

\* Mutant of Threshold: the sweep starts one step late.
Threshold_Next(i) == ((i + 1) * One) \div 10

\* t = t / 10
Threshold(i) == (i * One) \div 10

\* Mutant of AddEps: the 1e-20 is left out.
AddEps_None(n) == [whole |-> n, eps |-> 0]

\* n + 1e-20 in double precision: n itself from 1 on (1e-20 is far below half
\* an ulp of 1.0), and 1e-20 when n is 0.
AddEps(n) == [whole |-> n, eps |-> IF n = 0 THEN 1 ELSE 0]

\* num / den
Divide(num, den) == [num |-> num, den |-> den]

\* A float division by exactly 0.0 raises ZeroDivisionError.
DivideRaises(den) == den.whole = 0 /\ den.eps = 0

\* tp / (tp + fn + 1e-20), fp / (fp + tn + 1e-20)
Rate(hit, miss) == Divide(hit, AddEps(hit + miss))

\* Order of two rates as doubles.
RateLeq(r, s) ==
    IF r.num = 0 THEN TRUE
    ELSE IF s.num = 0 THEN FALSE
    ELSE IF r.den.whole = 0 THEN s.den.whole = 0 /\ r.num <= s.num
    ELSE IF s.den.whole = 0 THEN TRUE
    ELSE r.num * s.den.whole <= s.num * r.den.whole

\* plot1(probabilities, labels, threshold): the counting loop, the two
\* histograms (a boolean mask of another length than the array it indexes is
\* an IndexError), and the return of the matrix.
Plot1Result(ps, ls, thr) ==
    LET counted == CountFrom(ZeroMatrix, ls, Predicted(ps, thr), 1) IN
    [cm |-> counted.cm,
     err |-> IF counted.err # "none" THEN counted.err
             ELSE IF Len(ps) # Len(ls) THEN "IndexError"
             ELSE "none"]

\* plot1(probs, labels, threshold), called from main.
plot1(ps, ls, thr) ==
    /\ pc = "idle"
    /\ LET res == Plot1Result(ps, ls, thr) IN
       /\ confusion_matrix' = res.cm
       /\ raised' = res.err
       /\ pc' = IF res.err # "none" THEN "raised" ELSE "returned"
    /\ call' = "plot1"
    /\ probabilities' = ps
    /\ labels' = ls
    /\ threshold' = thr
    /\ UNCHANGED <<t, tpr, fpr, wrote>>
    /\ UNCHANGED gvars

\* f1(threshold): plot1, then the two rates written to the page.
f1(ps, ls, thr) ==
    /\ pc = "idle"
    /\ LET res == Plot1Result(ps, ls, thr)
           fn == res.cm[2][1]
           tp == res.cm[2][2]
           tn == res.cm[1][1]
           fp == res.cm[1][2]
       IN
       /\ confusion_matrix' = res.cm
       /\ IF res.err # "none"
             THEN pc' = "raised" /\ raised' = res.err /\ wrote' = <<>>
          ELSE IF DivideRaises(AddEps(tp + fn))
             THEN pc' = "raised" /\ raised' = "ZeroDivisionError" /\ wrote' = <<>>
          ELSE IF DivideRaises(AddEps(fp + tn))
             THEN /\ pc' = "raised" /\ raised' = "ZeroDivisionError"
                  /\ wrote' = <<Rate(tp, fn)>>
          ELSE /\ pc' = "returned" /\ raised' = "none"
               /\ wrote' = <<Rate(tp, fn), Rate(fp, tn)>>
    /\ call' = "f1"
    /\ probabilities' = ps
    /\ labels' = ls
    /\ threshold' = thr
    /\ UNCHANGED <<t, tpr, fpr>>
    /\ UNCHANGED gvars

\* make_tpr_fpr(probabilities, labels): entry, fpr = [] and tpr = [].
make_tpr_fpr(ps, ls) ==
    /\ pc = "idle"
    /\ call' = "make_tpr_fpr"
    /\ pc' = "loop"
    /\ probabilities' = ps
    /\ labels' = ls
    /\ t' = 0
    /\ tpr' = <<>>
    /\ fpr' = <<>>
    /\ UNCHANGED <<threshold, confusion_matrix, wrote, raised>>
    /\ UNCHANGED gvars

\* The body of "for t in range(11)" for index i: the threshold, the matrix
\* the counting loop leaves, its error, and the two rates.
Iteration(ps, ls, i) ==
    LET thr == Threshold(i)
        counted == CountFrom(ZeroMatrix, ls, Predicted(ps, thr), 1)
        fn == counted.cm[2][1]
        tp == counted.cm[2][2]
        tn == counted.cm[1][1]
        fp == counted.cm[1][2]
    IN [thr |-> thr, cm |-> counted.cm, err |-> counted.err,
        tpr_raises |-> DivideRaises(AddEps(tp + fn)),
        fpr_raises |-> DivideRaises(AddEps(fp + tn)),
        tpr |-> Rate(tp, fn), fpr |-> Rate(fp, tn)]

\* One iteration of "for t in range(11)".
make_tpr_fpr_iteration ==
    /\ call = "make_tpr_fpr"
    /\ pc = "loop"
    /\ t < ThresholdSteps
    /\ LET it == Iteration(probabilities, labels, t) IN
       /\ threshold' = it.thr
       /\ confusion_matrix' = it.cm
       /\ IF it.err # "none"
             THEN /\ pc' = "raised" /\ raised' = it.err
                  /\ UNCHANGED <<t, tpr, fpr>>
          ELSE IF it.tpr_raises
             THEN /\ pc' = "raised" /\ raised' = "ZeroDivisionError"
                  /\ UNCHANGED <<t, tpr, fpr>>
          ELSE IF it.fpr_raises
             THEN /\ pc' = "raised" /\ raised' = "ZeroDivisionError"
                  /\ tpr' = Append(tpr, it.tpr)
                  /\ UNCHANGED <<t, fpr>>
          ELSE /\ tpr' = Append(tpr, it.tpr)
               /\ fpr' = Append(fpr, it.fpr)
               /\ t' = t + 1
               /\ UNCHANGED <<pc, raised>>
    /\ UNCHANGED <<call, probabilities, labels, wrote>>
    /\ UNCHANGED gvars

\* return np.array(tpr), np.array(fpr)
make_tpr_fpr_return ==
    /\ call = "make_tpr_fpr"
    /\ pc = "loop"
    /\ t = ThresholdSteps
    /\ pc' = "returned"
    /\ UNCHANGED <<call, probabilities, labels, threshold, confusion_matrix, t, tpr, fpr,
                   wrote, raised>>
    /\ UNCHANGED gvars

\* The call is over (its value returned or its exception propagated): the
\* frame is dropped, and the page is ready for the next call.
EndCall ==
    /\ pc \in {"returned", "raised"}
    /\ call' = "none"
    /\ pc' = "idle"
    /\ probabilities' = <<>>
    /\ labels' = <<>>
    /\ threshold' = 0
    /\ confusion_matrix' = ZeroMatrix
    /\ t' = 0
    /\ tpr' = <<>>
    /\ fpr' = <<>>
    /\ wrote' = <<>>
    /\ raised' = "none"
    /\ UNCHANGED gvars

MetricsInit ==
    /\ call = "none"
    /\ pc = "idle"
    /\ probabilities = <<>>
    /\ labels = <<>>
    /\ threshold = 0
    /\ confusion_matrix = ZeroMatrix
    /\ t = 0
    /\ tpr = <<>>
    /\ fpr = <<>>
    /\ wrote = <<>>
    /\ raised = "none"

\* A call starts only when none is in progress; the arguments are any scores,
\* labels and threshold within the bounds.
MetricsNext ==
    \/ /\ pc = "idle"
       /\ \E ps \in SeqsUpTo(ScoreValues, MaxLen), ls \in SeqsUpTo(LabelValues, MaxLen),
             thr \in ThresholdValues : plot1(ps, ls, thr)
    \/ /\ pc = "idle"
       /\ \E ps \in SeqsUpTo(ScoreValues, MaxLen), ls \in SeqsUpTo(LabelValues, MaxLen),
             thr \in ThresholdValues : f1(ps, ls, thr)
    \/ /\ pc = "idle"
       /\ \E ps \in SeqsUpTo(ScoreValues, MaxLen), ls \in SeqsUpTo(LabelValues, MaxLen) :
             make_tpr_fpr(ps, ls)
    \/ make_tpr_fpr_iteration
    \/ make_tpr_fpr_return
    \/ EndCall

----------------------------------------------------------------------------
\* The generator: numpy's global random state and DummyClassifier.

\* np.random.seed(40)
Seed == 40

RngStates == 0 .. RngMod - 1

\* The generator's state after one draw.
NextState(s) == (5 * s + 3) % RngMod

\* The standard-normal value the generator yields in state s.
Normal(s) == (s % 5) - 2

\* Mutant of Seeded: the generator is not reseeded.
Seeded_Skip(state, seed) == state

\* np.random.seed(seed): the state after it, whatever the state was before.
Seeded(state, seed) == seed % RngMod

\* The state after n draws from state s.
RECURSIVE Advance(_, _)
Advance(s, n) == IF n = 0 THEN s ELSE Advance(NextState(s), n - 1)

\* np.random.randn(n) from state s.
RECURSIVE randn(_, _)
randn(s, n) == IF n = 0 THEN <<>> ELSE <<Normal(s)>> \o randn(NextState(s), n - 1)

\* y[y == v].shape[0]
CountOf(ys, v) == Cardinality({j \in 1..Len(ys) : ys[j] = v})

\* np.random.randn(n) * std + mean
Scaled(zs, std, mean) == [j \in 1..Len(zs) |-> zs[j] * std + mean]

\* (pos_label_args, neg_label_args), each a (mean, std) in ticks: main's
\* (0.6, 0.01) and (0.2, 0.01), and a pair of overlapping classes.
MainArgs == <<<<6 * TicksPerStep, 1>>, <<2 * TicksPerStep, 1>>>>
ArgChoices == {MainArgs, <<<<5 * TicksPerStep, TicksPerStep>>, <<4 * TicksPerStep, TicksPerStep>>>>}

\* X as its shape: main's two-dimensional input, and a one-dimensional one.
ShapeChoices == {<<MaxLen, 1>>, <<MaxLen>>}

\* DummyClassifier.__init__
DummyClassifier_init(pos_label_args, neg_label_args) ==
    [pos_label_mean |-> pos_label_args[1], pos_label_std |-> pos_label_args[2],
     neg_label_mean |-> neg_label_args[1], neg_label_std |-> neg_label_args[2]]

\* clf = DummyClassifier(pos_label_args=..., neg_label_args=...)
DummyClassifier(pos_label_args, neg_label_args) ==
    /\ clf' = DummyClassifier_init(pos_label_args, neg_label_args)
    /\ last' = "DummyClassifier"
    /\ repeat' = FALSE
    /\ UNCHANGED <<rng, y, probs, origin, memo>>
    /\ UNCHANGED mvars

\* some_rand_input = np.random.rand(m, n): n values drawn from the global
\* generator.
rand(n) ==
    /\ rng' = Advance(rng, n)
    /\ last' = "rand"
    /\ repeat' = FALSE
    /\ UNCHANGED <<clf, y, probs, origin, memo>>
    /\ UNCHANGED mvars

\* The scores predict builds: postives, then negatives, concatenated.
PredictScores(state, c, ys) ==
    LET postives == Scaled(randn(Seeded(state, Seed), CountOf(ys, 1)),
                           c.pos_label_std, c.pos_label_mean)
        negatives == Scaled(randn(Seeded(state, Seed), CountOf(ys, 0)),
                            c.neg_label_std, c.neg_label_mean)
    IN postives \o negatives

\* The class each score of PredictScores was drawn for.
PredictOrigin(ys) ==
    [j \in 1..CountOf(ys, 1) |-> 1] \o [j \in 1..CountOf(ys, 0) |-> 0]

\* The global generator after predict: seeded, then advanced by the draws of
\* the negatives.
PredictRng(state, ys) == Advance(Seeded(state, Seed), CountOf(ys, 0))

\* clf.predict(X, y)
predict(Xs, ys) ==
    /\ IF Len(Xs) # 2
          THEN /\ last' = "predict raised"
               /\ repeat' = FALSE
               /\ UNCHANGED <<rng, y, probs, origin, memo>>
       ELSE /\ last' = "predict returned"
            /\ y' = ys
            /\ probs' = PredictScores(rng, clf, ys)
            /\ origin' = PredictOrigin(ys)
            /\ rng' = PredictRng(rng, ys)
            /\ LET this == [clf |-> clf, y |-> ys, probs |-> probs']
                   same == {m \in memo : m.clf = clf /\ m.y = ys}
               IN /\ repeat' = (same # {})
                  /\ memo' \in (IF same # {} THEN {memo} ELSE {memo, {this}})
    /\ UNCHANGED clf
    /\ UNCHANGED mvars

GeneratorInit ==
    /\ rng \in RngStates
    /\ clf = DummyClassifier_init(MainArgs[1], MainArgs[2])
    /\ y = <<>>
    /\ probs = <<>>
    /\ origin = <<>>
    /\ memo = {}
    /\ repeat = FALSE
    /\ last = "none"

GeneratorNext ==
    \/ \E args \in ArgChoices : DummyClassifier(args[1], args[2])
    \/ \E n \in 1..MaxDraws : rand(n)
    \/ \E Xs \in ShapeChoices, ys \in SeqsUpTo({0, 1}, MaxLen) : predict(Xs, ys)

----------------------------------------------------------------------------
\* Specifications.

Init == MetricsInit /\ GeneratorInit

Next == MetricsNext \/ GeneratorNext

Spec == Init /\ [][Next]_vars

\* The metrics alone.  They neither read nor write the generator side, which
\* stays as a seeded generator leaves it.
SeededInit == Init /\ rng = Seeded(0, Seed)

MetricsSpec == SeededInit /\ [][MetricsNext]_vars

\* The generator alone; no metrics call is in progress.
GeneratorSpec == Init /\ [][GeneratorNext]_vars

----------------------------------------------------------------------------
\* Vocabulary of the properties.

\* The inputs the metrics are specified for: as many scores as labels, and
\* every label 0 or 1.
ValidInputs ==
    /\ Len(probabilities) = Len(labels)
    /\ \A j \in 1..Len(labels) : labels[j] \in {0, 1}

\* confusion_matrix holds a finished matrix: plot1 (or f1's plot1) returned it,
\* or an iteration of make_tpr_fpr has completed.
MatrixBuilt ==
    \/ call \in {"plot1", "f1"} /\ pc = "returned"
    \/ call = "make_tpr_fpr" /\ pc \in {"loop", "returned"} /\ t >= 1

CellSum(cm) == cm[1][1] + cm[1][2] + cm[2][1] + cm[2][2]

\* The number of samples with label a whose score is at least thr (p = 1) or
\* below thr (p = 0).
Samples(a, p, thr) ==
    Cardinality({j \in 1..Len(labels) :
        /\ labels[j] = a
        /\ (p = 1) <=> (probabilities[j] >= thr)})

\* The rate r is the double nearest hit / total, and 0 when total is 0.
RateIs(r, hit, total) ==
    IF total = 0 THEN r.num = 0
    ELSE r.den.whole > 0 /\ r.num * total = hit * r.den.whole

\* The rate r lies in [0, 1].
InUnit(r) == r.num >= 0 /\ (r.num = 0 \/ (r.den.whole > 0 /\ r.num <= r.den.whole))

NonIncreasing(series) ==
    \A i \in 1..(Len(series) - 1) : RateLeq(series[i + 1], series[i])

SweepReturned == call = "make_tpr_fpr" /\ pc = "returned"

NoPositives == \A j \in 1..Len(labels) : labels[j] # 1
NoNegatives == \A j \in 1..Len(labels) : labels[j] # 0

----------------------------------------------------------------------------
\* C1: for valid inputs and every threshold, the four cells of the confusion
\* matrix built by plot1, and by each iteration of make_tpr_fpr, are
\* non-negative integers whose sum is the number of samples.
C1_CellsSumToLength ==
    (ValidInputs /\ MatrixBuilt) =>
        /\ \A a \in 1..2, p \in 1..2 : confusion_matrix[a][p] \in Nat
        /\ CellSum(confusion_matrix) = Len(labels)

\* C1's case: an iteration of the sweep has counted MaxLen valid samples, two
\* of them into one cell.
C1_Witness ==
    /\ ValidInputs /\ call = "make_tpr_fpr" /\ pc = "loop" /\ t >= 1
    /\ Len(labels) = MaxLen
    /\ \E a \in 1..2, p \in 1..2 : confusion_matrix[a][p] >= 2

\* C2: cell [a][p] of the confusion matrix is the number of samples with
\* label a and prediction p, the prediction being 1 exactly when the score is
\* at least the threshold; row 0 is (TN, FP) and row 1 is (FN, TP).
C2_CellCountsLabelAndPrediction ==
    (ValidInputs /\ MatrixBuilt) =>
        \A a \in {0, 1}, p \in {0, 1} :
            confusion_matrix[a + 1][p + 1] = Samples(a, p, threshold)

\* C2's case: plot1 returned a matrix that counts a positive whose score
\* equals the threshold (a true positive) and a negative below it.
C2_Witness ==
    /\ ValidInputs /\ call = "plot1" /\ pc = "returned"
    /\ \E j \in 1..Len(labels) : labels[j] = 1 /\ probabilities[j] = threshold
    /\ \E j \in 1..Len(labels) : labels[j] = 0 /\ probabilities[j] < threshold
    /\ confusion_matrix[2][2] >= 1
    /\ confusion_matrix[1][1] >= 1

\* C3: for valid inputs make_tpr_fpr returns two series of 11 entries, entry
\* i being the rates of the confusion matrix at threshold i/10, in increasing
\* order of i, and every entry lies in [0, 1].
C3_SweepSeries ==
    (ValidInputs /\ SweepReturned) =>
        /\ Len(tpr) = 11
        /\ Len(fpr) = 11
        /\ \A i \in 0..10 :
            LET thr == (i * One) \div 10 IN
            /\ RateIs(tpr[i + 1], Samples(1, 1, thr), Samples(1, 1, thr) + Samples(1, 0, thr))
            /\ RateIs(fpr[i + 1], Samples(0, 1, thr), Samples(0, 1, thr) + Samples(0, 0, thr))
            /\ InUnit(tpr[i + 1])
            /\ InUnit(fpr[i + 1])

\* C3's case: a sweep returned whose tpr is 1 at threshold 0, strictly between
\* 0 and 1 at threshold 0.3, and 0 at threshold 1.0.
C3_Witness ==
    /\ ValidInputs /\ SweepReturned
    /\ Len(tpr) = 11
    /\ tpr[1].num = tpr[1].den.whole /\ tpr[1].num > 0
    /\ tpr[4].num > 0 /\ tpr[4].num < tpr[4].den.whole
    /\ tpr[11].num = 0

\* C4 as stated: when scores and labels differ in length, neither plot1 nor
\* make_tpr_fpr returns a value.
C4_LengthMismatchFailsFast ==
    (Len(probabilities) # Len(labels)) => pc # "returned"

\* C5 as stated: when a label is outside {0, 1} the call does not return, and
\* no sample with such a label is counted in a cell.
C5_InvalidLabelFailsFast ==
    /\ (\E j \in 1..Len(labels) : labels[j] \notin {0, 1}) => pc # "returned"
    /\ CellSum(confusion_matrix)
         <= Cardinality({j \in 1..Len(labels) : labels[j] \in {0, 1}})

\* C6: with no positives or no negatives among the samples (the empty sample
\* set included) the rate computation does not raise, and the rate of the
\* absent class is 0 at every threshold.
C6_DegenerateClassRateIsZero ==
    (ValidInputs /\ (NoPositives \/ NoNegatives)) =>
        /\ pc # "raised"
        /\ raised = "none"
        /\ SweepReturned => Len(tpr) = 11 /\ Len(fpr) = 11
        /\ (call = "f1" /\ pc = "returned") => Len(wrote) = 2
        /\ NoPositives =>
            /\ \A i \in 1..Len(tpr) : tpr[i].num = 0
            /\ Len(wrote) >= 1 => wrote[1].num = 0
        /\ NoNegatives =>
            /\ \A i \in 1..Len(fpr) : fpr[i].num = 0
            /\ Len(wrote) >= 2 => wrote[2].num = 0

\* C6's case: a sweep over MaxLen positives and no negative returned: fpr is
\* 0 throughout while tpr is not.
C6_Witness ==
    /\ ValidInputs /\ SweepReturned
    /\ Len(labels) = MaxLen /\ NoNegatives
    /\ tpr[1].num > 0
    /\ \A i \in 1..Len(fpr) : fpr[i].num = 0

\* C7: a predict call with the parameters and labels of an earlier call
\* returns the scores that call returned, whatever was drawn in between.
C7_PredictRepeats ==
    (last = "predict returned" /\ repeat) =>
        \A m \in memo : (m.clf = clf /\ m.y = y) => probs = m.probs

\* C7's case: predict has just repeated a remembered call with MaxLen labels
\* of both classes.
C7_Witness ==
    /\ last = "predict returned" /\ repeat
    /\ \E m \in memo : m.clf = clf /\ m.y = y
    /\ Len(y) = MaxLen
    /\ CountOf(y, 1) >= 1 /\ CountOf(y, 0) >= 1

\* C8 as stated: predict returns one score per label, the score at index i
\* drawn for the class of labels[i], for labels in any order.
C8_ScoresFollowLabels ==
    (last = "predict returned") =>
        /\ Len(probs) = Len(y)
        /\ \A i \in 1..Len(y) : origin[i] = y[i]

\* C9 as stated: a predict call leaves the global generator and the
\* classifier's parameters as they were.
C9_PredictHasNoSideEffect ==
    [][(last' \in {"predict returned", "predict raised"}) => (rng' = rng /\ clf' = clf)]_vars

\* C10 as stated: when make_tpr_fpr can be called, some valid input makes
\* the tpr or the fpr series of the sweep increase from one index to the next.
C10_SomeSweepIncreases ==
    (pc = "idle") =>
        \E ps \in SeqsUpTo(ScoreValues, MaxLen), ls \in SeqsUpTo({0, 1}, MaxLen) :
            /\ Len(ps) = Len(ls)
            /\ \E i \in 0..(ThresholdSteps - 2) :
                \/ ~RateLeq(Iteration(ps, ls, i + 1).tpr, Iteration(ps, ls, i).tpr)
                \/ ~RateLeq(Iteration(ps, ls, i + 1).fpr, Iteration(ps, ls, i).fpr)

\* C10 amended: for every valid input both series of the sweep are
\* non-increasing in the index.
C10_SweepNonIncreasing ==
    (ValidInputs /\ call = "make_tpr_fpr") =>
        NonIncreasing(tpr) /\ NonIncreasing(fpr)

\* C10's case: a sweep returned in which tpr and fpr each strictly decrease
\* somewhere.
C10_Witness ==
    /\ ValidInputs /\ SweepReturned
    /\ \E i \in 1..(Len(tpr) - 1) : ~RateLeq(tpr[i], tpr[i + 1])
    /\ \E i \in 1..(Len(fpr) - 1) : ~RateLeq(fpr[i], fpr[i + 1])

====
